---- MODULE Spec2Model ----
(***************************************************************************)
(* Model of the diagram pipeline of xcalidraft-ai:                         *)
(*   - the scene reconciler of components/ExcalidrawApp.tsx                *)
(*     (prefixIds, handleElementsGenerated),                               *)
(*   - the chat request life cycle of components/AIChatPanel.tsx           *)
(*     (sendMessage, cancelRequest, processLLMResponse),                   *)
(*   - the relay of app/api/chat/route.ts (POST) with its timeout timer.   *)
(***************************************************************************)
EXTENDS Integers, Sequences, FiniteSets, TLC

VARIABLES
  scene,            \* api.getSceneElements(): the ordered elements of the canvas
  batchCounter,     \* module-level `let batchCounter`
  randomIds,        \* number of ids the element library has generated (randomId())
  call,             \* the parsed response handed to handleElementsGenerated, with
                    \* the state it was applied to (SpecReconcile)
  wellFormed,       \* history (SpecSession): every batch so far had pairwise-distinct
                    \* ids and an action among absent/add/replace/modify
  api,              \* ExcalidrawApp's `api` state is set (handleAPIReady has run)
  messages,         \* AIChatPanel's transcript
  loading,          \* AIChatPanel's `loading` state
  abortControllerRef, \* the request whose controller the ref holds, 0 for null
  requests,         \* the sendMessage invocations, in order of their start
  lastSend,         \* history: the last call of sendMessage with a non-blank
                    \* prompt made while a request was running, and that request;
                    \* forgotten when a request finishes
  relay,            \* one POST of the relay: its position, timer and output
  elapsed,          \* time since the relay armed its timer, in ticks
  stream,           \* the client's read loop over one event stream (SpecStream)
  parse,            \* one text given to processLLMResponse (SpecParse)
  linear,           \* one batch given to normalizeLinearElements (SpecNormalize)
  storage,          \* localStorage: the chat history item and the canvas item
  saveTimer,        \* saveTimerRef: the pending debounced save and its elements
  hist,             \* history of the page (SpecPersist)
  prefixed,         \* one batch given to prefixIds (SpecPrefix)
  debounce,         \* saveCanvasToStorage and its timer, with time (SpecDebounce)
  upstream,         \* the messages the relay builds for one request (SpecUpstream)
  fallback          \* one model answer taken through the relay and the client,
                    \* as a JSON body and as an event stream (SpecFallback)

sceneVars == <<scene, batchCounter, randomIds>>

chatVars == <<api, messages, loading, abortControllerRef, requests, lastSend>>

relayVars == <<relay, elapsed>>

storeVars == <<storage, saveTimer, hist>>

extraVars == <<prefixed, debounce, upstream, fallback>>

auxVars == <<stream, parse, linear, storage, saveTimer, hist,
             prefixed, debounce, upstream, fallback>>

vars == <<scene, batchCounter, randomIds, call, wellFormed,
          api, messages, loading, abortControllerRef, requests, lastSend,
          relay, elapsed, stream, parse, linear, storage, saveTimer, hist,
          prefixed, debounce, upstream, fallback>>

----------------------------------------------------------------------------
(* Bounds of the model *)

MaxBatchLen == 2      \* skeletons in one parsed response
MaxExisting == 2      \* elements on the canvas when a response arrives (SpecReconcile)
MaxSceneLen == 3      \* elements on the canvas in one page session (SpecSession)
MaxAddBatches == 1    \* calls of prefixIds (add batches) in one page session
MaxRandomIds == 1     \* ids the element library generates in one page session
MaxRequests == 2      \* accepted sendMessage calls in one chat session (SpecChat)
TimeoutTicks == 2     \* the configured duration timeoutMs, in ticks (SpecRelay)
MaxOvertime == 2      \* ticks observed beyond the configured duration (SpecRelay)
MaxUpstreamEvents == 3 \* events read from the upstream stream (SpecRelay)
MaxTokens == 2        \* token events of one event stream (SpecStream)
MaxTextLen == 5       \* units of a text given to the response parser (SpecParse)
MaxPoints == 2        \* points of a linear element (SpecNormalize)
MaxFocus == 2         \* largest absolute binding focus (SpecNormalize)
MaxTranscript == 4    \* entries of the transcript (SpecPersist)
MaxDraws == 2         \* documents drawn between two reloads (SpecPersist)
MaxChanges == 6       \* calls of onChange (SpecDebounce)
DebounceTicks == 3    \* the delay of the debounced save, in ticks (SpecDebounce)
MaxMessages == 11     \* entries of the messages of a request body (SpecUpstream)
RecentCount == 10     \* body.messages.slice(-10)

(* The ids the language model writes.  "b1_a" is an id shaped like the ones *)
(* prefixIds produces, as the model can copy from the canvas context.      *)
ModelIds == {"a", "b", "b1_a"}
Labels == {"v1", "v2"}

(* skeleton.start or skeleton.end: absent, or an object with a string id *)
NoRef == [kind |-> "none", id |-> ""]

Ref(id) == [kind |-> "id", id |-> id]

(* An ElementSkeleton: `id` is optional (hasId = FALSE: no string id);     *)
(* `text` stands for every other field of the skeleton; start and end are  *)
(* the bindings of an arrow.                                               *)
Skeletons ==
  [hasId : {TRUE}, id : ModelIds, text : Labels, start : {NoRef},
   end : {NoRef}]
    \cup [hasId : {FALSE}, id : {""}, text : {"v1"}, start : {NoRef},
          end : {NoRef}]

Batches == UNION {[1..n -> Skeletons] : n \in 1..MaxBatchLen}

(* parsed.action of a parsed response: "" stands for an absent (or empty)  *)
(* action; "update" for any value outside add/replace/modify.              *)
ParsedActions == {"", "add", "replace", "modify", "update"}

----------------------------------------------------------------------------
(* Helpers on sequences *)

Ids(elements) == {elements[i].id : i \in DOMAIN elements}

DistinctIds(elements) ==
  \A i, j \in DOMAIN elements : i # j => elements[i].id # elements[j].id

DistinctSkeletonIds(skeletons) ==
  \A i, j \in DOMAIN skeletons :
    (i # j /\ skeletons[i].hasId /\ skeletons[j].hasId)
      => skeletons[i].id # skeletons[j].id

----------------------------------------------------------------------------
(* prefixIds: `b${++batchCounter}_` prepended to every string id *)

BatchPrefix(n) == "b" \o ToString(n) \o "_"

(* idMap.has(id), lines 99-104: some skeleton of the batch has that id *)
IdMapHas(skeletons, id) ==
  \E j \in DOMAIN skeletons : skeletons[j].hasId /\ skeletons[j].id = id

RewriteRefAlways(ref, skeletons, n) ==
  IF ref.kind = "id" THEN [ref EXCEPT !.id = BatchPrefix(n) \o ref.id]
  ELSE ref

(* lines 116-128: a start or end whose id is a key of idMap gets its value *)
RewriteRef(ref, skeletons, n) ==
  IF ref.kind = "id" /\ IdMapHas(skeletons, ref.id)
    THEN [ref EXCEPT !.id = BatchPrefix(n) \o ref.id]
    ELSE ref

prefixIds(skeletons, n) ==
  [i \in DOMAIN skeletons |->
     [skeletons[i] EXCEPT
        !.id = IF skeletons[i].hasId THEN BatchPrefix(n) \o @ ELSE @,
        !.start = RewriteRef(@, skeletons, n),
        !.end = RewriteRef(@, skeletons, n)]]

(* convertToExcalidrawElements(.., {regenerateIds: false}) followed by the *)
(* JSON clone and restoreElements: one element per skeleton, in order, the *)
(* skeleton's id kept, a generated id given to a skeleton without one.     *)
RandomId(k) == "r" \o ToString(k)

NoIdBefore(skeletons, i) ==
  Cardinality({j \in 1..i : ~skeletons[j].hasId})

convertToExcalidrawElements(skeletons, generated) ==
  [i \in DOMAIN skeletons |->
     [id   |-> IF skeletons[i].hasId
                 THEN skeletons[i].id
                 ELSE RandomId(generated + NoIdBefore(skeletons, i)),
      text |-> skeletons[i].text]]

----------------------------------------------------------------------------
(* The three merge policies of handleElementsGenerated *)

(* incomingById after the loop of lines 206-208: a Map keeps the position  *)
(* of the first set of a key and the value of the last.                    *)
LastWithId(newElements, id) ==
  newElements[CHOOSE i \in DOMAIN newElements :
                /\ newElements[i].id = id
                /\ \A j \in DOMAIN newElements :
                     newElements[j].id = id => j <= i]

RECURSIVE RemainingNew(_, _, _)
RemainingNew(newElements, existing, i) ==
  IF i > Len(newElements) THEN <<>>
  ELSE LET id == newElements[i].id
           first == \A j \in 1..(i - 1) : newElements[j].id # id
       IN (IF first /\ id \notin Ids(existing)
             THEN <<LastWithId(newElements, id)>>
             ELSE <<>>)
          \o RemainingNew(newElements, existing, i + 1)

UpdatedElements(existing, newElements) ==
  [i \in DOMAIN existing |->
     IF /\ existing[i].id \in Ids(newElements)
        /\ \A j \in 1..(i - 1) : existing[j].id # existing[i].id
       THEN LastWithId(newElements, existing[i].id)
       ELSE existing[i]]

ReplaceSceneKeepOld(existing, newElements) == existing \o newElements

ReplaceScene(existing, newElements) == newElements

ModifySceneAppendAll(existing, newElements) ==
  UpdatedElements(existing, newElements) \o newElements

ModifyScene(existing, newElements) ==
  UpdatedElements(existing, newElements)
    \o RemainingNew(newElements, existing, 1)

AddScenePrepend(existing, newElements) == newElements \o existing

AddScene(existing, newElements) == existing \o newElements

(* handleElementsGenerated(skeletons, action), lines 176-230 *)
(* `ready` is the `api` the callback closed over: line 178 returns when it *)
(* is null.                                                                *)
handleElementsGenerated(ready, skeletons, action) ==
  LET isAdd == action = "add"
      processedSkeletons ==
        IF isAdd THEN prefixIds(skeletons, batchCounter + 1) ELSE skeletons
      newElements == convertToExcalidrawElements(processedSkeletons, randomIds)
  IN IF ~ready THEN UNCHANGED sceneVars
     ELSE /\ scene' =
               IF action = "replace" THEN ReplaceScene(scene, newElements)
               ELSE IF action = "modify" THEN ModifyScene(scene, newElements)
               ELSE AddScene(scene, newElements)
          /\ batchCounter' = IF isAdd THEN batchCounter + 1 ELSE batchCounter
          /\ randomIds' = randomIds + NoIdBefore(skeletons, Len(skeletons))

(* processLLMResponse, lines 833-834: the action handed to the reconciler *)
ActionOrDefault(parsedAction) ==
  IF parsedAction = "" THEN "add" ELSE parsedAction

(* The chat panel before any request; the canvas mounted *)
ChatIdle ==
  /\ api = TRUE
  /\ messages = <<>>
  /\ loading = FALSE
  /\ abortControllerRef = 0
  /\ requests = <<>>
  /\ lastSend = [prompt |-> "", during |-> 0]

(* No response of the relay yet *)
NoResponse == [status |-> 0, error |-> "", body |-> "none"]

(* The relay before a POST arrives; events is what the response stream    *)
(* has carried to the client, read the number of upstream events consumed *)
(* and lines those events; callerGone: the caller has aborted the request, *)
(* cancelled: the response stream was cancelled for it, readAtAbort: the   *)
(* value of read at that moment; released: reader.releaseLock() has run.   *)
RelayIdle ==
  /\ relay = [pc |-> "idle", timer |-> FALSE, aborted |-> FALSE,
              response |-> NoResponse, read |-> 0, events |-> <<>>,
              closed |-> FALSE, body |-> "", fetched |-> FALSE,
              lines |-> <<>>, callerGone |-> FALSE, cancelled |-> FALSE,
              readAtAbort |-> 0, released |-> FALSE]
  /\ elapsed = 0

(* No event stream is being read *)
NoStream ==
  [tokens |-> <<>>, wire |-> <<>>, buffer |-> <<>>, accumulated |-> "",
   pc |-> "idle", outcome |-> "none", handed |-> ""]

StreamIdle == stream = NoStream

(* No text has been given to the response parser *)
NoParse == [content |-> <<>>, pc |-> "idle", plain |-> "none",
            action |-> "", elements |-> <<>>, noisy |-> "none",
            noisyAction |-> "", noisyElements |-> <<>>]

ParseIdle == parse = NoParse

(* No batch has been given to normalizeLinearElements *)
NoLinear == [input |-> <<>>, once |-> <<>>, twice |-> <<>>, pc |-> "idle"]

LinearIdle == linear = NoLinear

(* localStorage.getItem of a key that is not set *)
NoItem == [present |-> FALSE, value |-> <<>>]

Item(value) == [present |-> TRUE, value |-> value]

NoTimer == [armed |-> FALSE, elements |-> <<>>]

(* hist: afterClear: Clear has run and no prompt was submitted and the     *)
(* canvas was not edited since; lastTranscript: the last non-empty         *)
(* transcript; lastFired: the elements of the last debounced save that     *)
(* fired; chatRemoved, canvasRemoved: Clear removed the item after that;   *)
(* phase: "restored" right after a reload has restored the page;           *)
(* pending: the prompt of the request in flight, "" for none, and         *)
(* pendingReady: whether the canvas was mounted when it was sent.          *)
FreshHist ==
  [afterClear |-> FALSE, lastTranscript |-> <<>>, lastFired |-> <<>>,
   chatRemoved |-> FALSE, canvasRemoved |-> FALSE, phase |-> "fresh",
   pending |-> "", pendingReady |-> FALSE]

(* A first visit: nothing stored, no save pending *)
StoreIdle ==
  /\ storage = [chat |-> NoItem, canvas |-> NoItem]
  /\ saveTimer = NoTimer
  /\ hist = FreshHist

(* No batch has been given to prefixIds *)
NoPrefixed == [pc |-> "idle", input |-> <<>>, n |-> 0, output |-> <<>>]

PrefixIdle == prefixed = NoPrefixed

(* saveCanvasToStorage has not been called: no timer, nothing stored.     *)
(* scene is the number of the latest onChange (0: none), stored the number *)
(* of the one whose elements the storage holds; timers are the pending     *)
(* timeouts, each with the ticks left and the elements it will store;      *)
(* writes counts localStorage.setItem, bursts the changes that did not     *)
(* follow another one by less than the delay.                              *)
NoDebounce ==
  [scene |-> 0, stored |-> 0, timers |-> <<>>, writes |-> 0, bursts |-> 0]

DebounceIdle == debounce = NoDebounce

(* No request body has reached the relay's message construction *)
NoUpstream ==
  [pc |-> "idle", messages |-> <<>>, canvasContext |-> FALSE,
   llmMessages |-> <<>>]

UpstreamIdle == upstream = NoUpstream

(* No model answer is on its way *)
NoFallback ==
  [pc |-> "idle", content |-> "", response |-> NoResponse, payload |-> "",
   outcome |-> "none", handed |-> ""]

FallbackIdle == fallback = NoFallback

ExtraIdle == PrefixIdle /\ DebounceIdle /\ UpstreamIdle /\ FallbackIdle

AuxIdle == StreamIdle /\ ParseIdle /\ LinearIdle /\ StoreIdle /\ ExtraIdle

NoCall ==
  [parsedAction |-> "", skeletons |-> <<>>, before |-> <<>>,
   counter |-> 0, generated |-> 0, done |-> FALSE]

----------------------------------------------------------------------------
(* SpecReconcile: one validated response {action, elements} is applied to  *)
(* a canvas that holds any scene (restored from storage or left by earlier *)
(* batches).                                                               *)

ExistingElements == [id : ModelIds, text : {"v1"}]

ExistingScenes == UNION {[1..n -> ExistingElements] : n \in 0..MaxExisting}

InitReconcile ==
  /\ scene \in ExistingScenes
  /\ batchCounter \in 0..MaxAddBatches
  /\ randomIds = 0
  /\ wellFormed = TRUE
  /\ ChatIdle
  /\ RelayIdle
  /\ AuxIdle
  /\ \E parsedAction \in ParsedActions, skeletons \in Batches :
       call = [parsedAction |-> parsedAction, skeletons |-> skeletons,
               before |-> scene, counter |-> batchCounter,
               generated |-> randomIds, done |-> FALSE]

OnElementsGenerated ==
  /\ ~call.done
  /\ handleElementsGenerated(api, call.skeletons,
                             ActionOrDefault(call.parsedAction))
  /\ call' = [call EXCEPT !.done = TRUE]
  /\ UNCHANGED <<wellFormed, chatVars, relayVars, auxVars>>

NextReconcile == OnElementsGenerated

SpecReconcile == InitReconcile /\ [][NextReconcile]_vars

----------------------------------------------------------------------------
(* SpecSession: one page session from the empty canvas; every validated    *)
(* response is handed to handleElementsGenerated.                          *)

InitSession ==
  /\ scene = <<>>
  /\ batchCounter = 0
  /\ randomIds = 0
  /\ call = NoCall
  /\ wellFormed = TRUE
  /\ ChatIdle
  /\ RelayIdle
  /\ AuxIdle

ElementsGenerated ==
  \E parsedAction \in ParsedActions, skeletons \in Batches :
    /\ handleElementsGenerated(api, skeletons, ActionOrDefault(parsedAction))
    /\ Len(scene') <= MaxSceneLen
    /\ batchCounter' <= MaxAddBatches
    /\ randomIds' <= MaxRandomIds
    /\ wellFormed' = (/\ wellFormed
                      /\ DistinctSkeletonIds(skeletons)
                      /\ parsedAction \in {"", "add", "replace", "modify"})
    /\ UNCHANGED <<call, chatVars, relayVars, auxVars>>

NextSession == ElementsGenerated

SpecSession == InitSession /\ [][NextSession]_vars

----------------------------------------------------------------------------
(* The response text and processLLMResponse                                *)
(*                                                                         *)
(* A response text is a sequence of characters.  "{" and "}" are braces,   *)
(* "A" and "R" each stand for the members of a JSON object with a          *)
(* non-empty elements array, "n" for the literal null and "x" for prose.   *)

Chars == {"{", "}", "x", "n", "A", "R"}

(* The texts the model server answers with in SpecChat *)
ResponseTexts ==
  { <<"{", "A", "}">>, <<"{", "R", "}">>, <<"x", "{", "A", "}">>,
    <<"{", "}">>, <<"n">>, <<"x">> }

(* The object a body character stands for; "" is an object without        *)
(* elements                                                                *)
DocOf(c) ==
  IF c = "A"
    THEN [parsedAction |-> "",
          skeletons |-> <<[hasId |-> TRUE, id |-> "a", text |-> "v1",
                           start |-> NoRef, end |-> NoRef]>>]
  ELSE IF c = "R"
    THEN [parsedAction |-> "replace",
          skeletons |-> <<[hasId |-> TRUE, id |-> "b", text |-> "v2",
                           start |-> NoRef, end |-> NoRef]>>]
  ELSE [parsedAction |-> "", skeletons |-> <<>>]

(* JSON.parse over units: "n" is null, "1" a number, "[" "]" and "{" "}"   *)
(* enclose the values of an array and the members of an object, " " is    *)
(* white space; "A" and "R" are each an `elements` member holding a        *)
(* non-empty array (with the action of DocOf), and any other value inside  *)
(* braces is a member of another name.  Every other unit is a SyntaxError. *)
NoValue == [kind |-> "none", doc |-> ""]

SyntaxError == [kind |-> "error", doc |-> ""]

Closer(open) == IF open = "[" THEN "]" ELSE "}"

(* The parser after unit i: `open` holds the enclosing arrays and objects  *)
(* (innermost last), each with the last `elements` member seen in it;      *)
(* value is the finished outermost value, NoValue before it.               *)
RECURSIVE ParseUnits(_, _, _, _)
ParseUnits(text, i, open, value) ==
  IF i > Len(text)
    THEN IF open = <<>> /\ value # NoValue THEN value ELSE SyntaxError
  ELSE
    LET c == text[i]
        depth == Len(open)
        top == open[depth]
        closed == [kind |-> IF top.close = "]" THEN "array"
                            ELSE IF top.doc = "" THEN "empty" ELSE "object",
                   doc |-> top.doc]
        scalar == [kind |-> IF c = "n" THEN "null" ELSE "scalar", doc |-> ""]
        ok == \/ c = " "
              \/ /\ value = NoValue
                 /\ \/ c \in {"n", "1", "[", "{"}
                    \/ c \in {"A", "R"} /\ depth > 0 /\ top.close = "}"
                    \/ c \in {"]", "}"} /\ depth > 0 /\ top.close = c
        nextOpen ==
          IF c \in {"[", "{"}
            THEN Append(open, [close |-> Closer(c), doc |-> ""])
          ELSE IF c \in {"A", "R"} THEN [open EXCEPT ![depth].doc = c]
          ELSE IF c \in {"]", "}"} THEN SubSeq(open, 1, depth - 1)
          ELSE open
        nextValue ==
          IF c \in {"n", "1"} /\ depth = 0 THEN scalar
          ELSE IF c \in {"]", "}"} /\ depth = 1 THEN closed
          ELSE value
    IN IF ok THEN ParseUnits(text, i + 1, nextOpen, nextValue)
       ELSE SyntaxError

(* JSON.parse: kind "error" is a SyntaxError *)
JSONParse(text) == ParseUnits(text, 1, <<>>, NoValue)

ExtractJsonLazy(text) ==
  LET opens == {i \in DOMAIN text : text[i] = "{"}
      first == CHOOSE i \in opens : \A k \in opens : i <= k
      closes == {j \in DOMAIN text : text[j] = "}" /\ first < j}
      last == CHOOSE j \in closes : \A k \in closes : j <= k
  IN IF opens # {} /\ closes # {}
       THEN SubSeq(text, first, last)
       ELSE <<>>

(* content.match(/\{[\s\S]*\}/): first "{" through last "}", <<>> for null *)
ExtractJson(text) ==
  LET opens == {i \in DOMAIN text : text[i] = "{"}
      closes == {j \in DOMAIN text : text[j] = "}"}
      first == CHOOSE i \in opens : \A k \in opens : i <= k
      last == CHOOSE j \in closes : \A k \in closes : k <= j
  IN IF opens # {} /\ closes # {} /\ first < last
       THEN SubSeq(text, first, last)
       ELSE <<>>

(* lines 817-820: elements is a non-empty array *)
HasElements(parsed) == parsed.kind = "object"

(* lines 780-815: the direct parse, then the parse of the extracted text *)
ParseResponse(content) ==
  LET direct == JSONParse(content)
      jsonMatch == ExtractJson(content)
  IN IF direct.kind # "error" THEN direct
     ELSE IF jsonMatch # <<>> THEN JSONParse(jsonMatch)
     ELSE direct

processLLMResponseApplyFirst(content) ==
  LET parsed == ParseResponse(content)
  IN IF parsed.kind = "error"
       THEN [result |-> "invalidjson", generated |-> FALSE, doc |-> ""]
     ELSE IF parsed.kind = "null"
       THEN [result |-> "threw", generated |-> FALSE, doc |-> ""]
     ELSE IF ~HasElements(parsed)
       THEN [result |-> "missingelements", generated |-> TRUE, doc |-> ""]
     ELSE [result |-> "generated", generated |-> TRUE, doc |-> parsed.doc]

(* processLLMResponse(content, prompt): the entry it leads to, and whether *)
(* it calls onElementsGenerated (generated), with which object.            *)
(* "threw": parsed is null and line 818 throws a TypeError.                *)
processLLMResponse(content) ==
  LET parsed == ParseResponse(content)
  IN IF parsed.kind = "error"
       THEN [result |-> "invalidjson", generated |-> FALSE, doc |-> ""]
     ELSE IF parsed.kind = "null"
       THEN [result |-> "threw", generated |-> FALSE, doc |-> ""]
     ELSE IF ~HasElements(parsed)
       THEN [result |-> "missingelements", generated |-> FALSE, doc |-> ""]
     ELSE [result |-> "generated", generated |-> TRUE, doc |-> parsed.doc]

----------------------------------------------------------------------------
(* The chat panel: sendMessage, cancelRequest, handleClearChat *)

Prompts == {"p", "q", " "}

(* !prompt.trim() *)
Blank(prompt) == prompt = " "

UserEntry(prompt) ==
  [role |-> "user", kind |-> "prompt", retryable |-> FALSE,
   originalPrompt |-> prompt]

ErrorEntryNoPrompt(kind, prompt) ==
  [role |-> "error", kind |-> kind, retryable |-> TRUE,
   originalPrompt |-> ""]

(* { role: "error", content, retryable: true, originalPrompt: prompt } *)
ErrorEntry(kind, prompt) ==
  [role |-> "error", kind |-> kind, retryable |-> TRUE,
   originalPrompt |-> prompt]

AssistantEntry(kind) ==
  [role |-> "assistant", kind |-> kind, retryable |-> FALSE,
   originalPrompt |-> ""]

(* no entry *)
NoEntry == [role |-> "none", kind |-> "none", retryable |-> FALSE,
            originalPrompt |-> ""]

(* lines 638-640: the user and assistant entries, as {role, content} *)
ApiMessages(entries) ==
  LET kept == SelectSeq(entries,
                        LAMBDA m : m.role \in {"user", "assistant"})
  IN [k \in DOMAIN kept |->
        [role |-> kept[k].role,
         content |-> IF kept[k].role = "user" THEN kept[k].originalPrompt
                     ELSE kept[k].kind]]

InFlight == {i \in DOMAIN requests : requests[i].pc # "done"}

(* One sendMessage invocation.  pc is the await it is suspended at; `upstream` *)
(* is the rest of the event stream that has not arrived yet; api is the    *)
(* `api` its callbacks closed over.  sceneAtSend, cleared, entry, called,    *)
(* wrote, changed and drawable are history: the scene when it started,      *)
(* whether Clear ran meanwhile, the entry it appended, whether it called    *)
(* onElementsGenerated and updateScene, whether it ended on another scene,  *)
(* and whether it was aborted with text accumulated that would have drawn;  *)
(* failure is the way it failed, "" if it did not.  body is the messages    *)
(* list of the request body; retryOf is the request whose error entry,      *)
(* the last of the transcript and right after that request's own user       *)
(* entry, had its Retry clicked to start this one (0 for none).             *)
NewRequest(prompt, retryOf) ==
  [prompt |-> prompt, body |-> ApiMessages(Append(messages, UserEntry(prompt))),
   retryOf |-> retryOf, pc |-> "fetch", aborted |-> FALSE, ok |-> TRUE,
   accumulated |-> <<>>, upstream |-> <<>>, api |-> api,
   sceneAtSend |-> scene, cleared |-> FALSE, entry |-> NoEntry,
   called |-> FALSE, wrote |-> FALSE, changed |-> FALSE,
   drawable |-> FALSE, failure |-> ""]

(* What the model keeps of a request that had finished when a later one   *)
(* was sent (and is not the one that Retry repeats): that it is done.  Its *)
(* history has been looked at in the states before that send.             *)
Retired ==
  [prompt |-> "", body |-> <<>>,
   retryOf |-> 0, pc |-> "done", aborted |-> FALSE, ok |-> TRUE,
   accumulated |-> <<>>, upstream |-> <<>>, api |-> TRUE,
   sceneAtSend |-> <<>>, cleared |-> FALSE, entry |-> NoEntry,
   called |-> FALSE, wrote |-> FALSE, changed |-> FALSE,
   drawable |-> FALSE, failure |-> ""]

(* cancelRequest, lines 613-618, as a change of `requests` *)
Aborting(reqs) ==
  IF abortControllerRef # 0
    THEN [reqs EXCEPT ![abortControllerRef].aborted = TRUE]
    ELSE reqs

SendAcceptedWhileLoading(prompt) == ~Blank(prompt)

(* line 622: if (!prompt.trim() || loading) return *)
SendAccepted(prompt) == ~Blank(prompt) /\ ~loading

(* sendMessage(prompt) up to its first await (lines 620-659) *)
Send(prompt, retryOf) ==
  /\ lastSend' = IF Blank(prompt) \/ InFlight = {} THEN lastSend
                  ELSE [prompt |-> prompt,
                        during |-> CHOOSE i \in InFlight :
                                     \A j \in InFlight : j <= i]
  /\ IF SendAccepted(prompt)
       THEN /\ Len(requests) < MaxRequests
            /\ requests' = Append([i \in DOMAIN requests |->
                                     IF i = retryOf \/ requests[i].pc # "done"
                                       THEN Aborting(requests)[i]
                                     ELSE Retired],
                                  NewRequest(prompt, retryOf))
            /\ messages' = Append(messages, UserEntry(prompt))
            /\ loading' = TRUE
            /\ abortControllerRef' = Len(requests) + 1
       ELSE UNCHANGED <<requests, messages, loading, abortControllerRef>>
  /\ UNCHANGED <<sceneVars, api, call, wellFormed, relayVars, auxVars>>

(* handleSubmit, handleKeyDown or an example prompt.  The code looks at a  *)
(* prompt only to see whether it is blank, so the first prompt of a       *)
(* session is called "p".                                                 *)
SendMessage(prompt) ==
  /\ requests = <<>> => prompt # "q"
  /\ Send(prompt, 0)

(* the error entry is the last of the transcript, it is the entry of the  *)
(* last request, and that request's user entry is right before it         *)
OneClick(k) ==
  /\ k = Len(messages)
  /\ k >= 2
  /\ requests # <<>>
  /\ requests[Len(requests)].failure # ""
  /\ requests[Len(requests)].entry = messages[k]
  /\ messages[k - 1] = UserEntry(requests[Len(requests)].prompt)

(* handleRetry (lines 859-861) from the Retry button of entry k (lines    *)
(* 1058-1066), which is disabled while loading                            *)
HandleRetry(k) ==
  /\ k \in DOMAIN messages
  /\ messages[k].role = "error"
  /\ messages[k].retryable
  /\ messages[k].originalPrompt # ""
  /\ ~loading
  /\ Send(messages[k].originalPrompt,
          IF OneClick(k) THEN Len(requests) ELSE 0)

(* the Cancel button: cancelRequest with a controller in the ref *)
CancelRequest ==
  /\ abortControllerRef # 0
  /\ requests' = Aborting(requests)
  /\ abortControllerRef' = 0
  /\ UNCHANGED <<sceneVars, api, messages, loading, lastSend, call, wellFormed, relayVars, auxVars>>

(* The end of request i: the entry it appends (NoEntry for none), then the *)
(* finally block of lines 768-773.                                         *)
Finish(i, entry, failure, called, wrote) ==
  /\ messages' = IF entry = NoEntry THEN messages ELSE Append(messages, entry)
  /\ loading' = FALSE
  /\ abortControllerRef' = 0
  /\ requests' = [requests EXCEPT
       ![i] = [@ EXCEPT !.pc = "done",
                        !.accumulated = <<>>,
                        !.upstream = <<>>, !.sceneAtSend = <<>>,
                        !.ok = TRUE, !.api = TRUE, !.cleared = FALSE,
                        !.retryOf = 0,
                        !.drawable =
                          (/\ requests[i].aborted
                           /\ processLLMResponse(
                                requests[i].accumulated).generated),
                        !.entry = entry, !.failure = failure,
                        !.called = called, !.wrote = wrote,
                        !.changed = (/\ ~requests[i].cleared
                                     /\ scene' # requests[i].sceneAtSend)]]
  /\ lastSend' = [prompt |-> "", during |-> 0]
  /\ UNCHANGED <<api, call, wellFormed, relayVars, auxVars>>

Awaiting(i, pc) ==
  /\ i \in DOMAIN requests
  /\ requests[i].pc = pc
  /\ ~requests[i].aborted

FailWith(i, kind) ==
  /\ UNCHANGED sceneVars
  /\ Finish(i, ErrorEntry(kind, requests[i].prompt), kind, FALSE, FALSE)

(* the request ends without an entry *)
EndSilently(i) ==
  /\ UNCHANGED sceneVars
  /\ Finish(i, NoEntry, "", FALSE, FALSE)

(* processLLMResponse(content, prompt) called from sendMessage, and the    *)
(* catch of lines 751-766 when it throws                                   *)
Process(i, content) ==
  LET r == processLLMResponse(content)
      doc == DocOf(r.doc)
      entry == IF r.result = "generated" THEN AssistantEntry("generated")
               ELSE IF r.result = "threw"
                 THEN ErrorEntry("network", requests[i].prompt)
               ELSE ErrorEntry(r.result, requests[i].prompt)
  IN /\ IF r.generated
          THEN handleElementsGenerated(requests[i].api, doc.skeletons,
                                       ActionOrDefault(doc.parsedAction))
          ELSE UNCHANGED sceneVars
     /\ Finish(i, entry, IF r.generated THEN "" ELSE r.result,
               r.generated, r.generated /\ requests[i].api)

AbortEntryAsError(prompt) == ErrorEntry("network", prompt)

(* lines 746-750: an AbortError is recorded as "Request cancelled." *)
AbortEntry(prompt) == AssistantEntry("cancelled")

(* the pending await of an aborted request rejects with an AbortError *)
HandleAbort(i) ==
  /\ i \in DOMAIN requests
  /\ requests[i].pc # "done"
  /\ requests[i].aborted
  /\ UNCHANGED sceneVars
  /\ Finish(i, AbortEntry(requests[i].prompt), "", FALSE, FALSE)

(* fetch rejects: the relay cannot be reached *)
FetchRejects(i) ==
  /\ Awaiting(i, "fetch")
  /\ FailWith(i, "network")

(* fetch resolves with a JSON content type (lines 662-664) *)
FetchRespondsJson(i, ok) ==
  /\ Awaiting(i, "fetch")
  /\ requests' = [requests EXCEPT ![i].pc = "json", ![i].ok = ok]
  /\ UNCHANGED <<sceneVars, api, messages, loading, abortControllerRef,
                 lastSend, call, wellFormed, relayVars, auxVars>>

(* res.json() resolves (lines 664-680) *)
JsonResolves(i, content) ==
  /\ Awaiting(i, "json")
  /\ IF ~requests[i].ok THEN FailWith(i, "relay")
     ELSE IF content # <<>> THEN Process(i, content)
     ELSE EndSilently(i)

(* res.json() rejects: the body is no JSON *)
JsonRejects(i) ==
  /\ Awaiting(i, "json")
  /\ FailWith(i, "network")

(* fetch resolves with another content type and !res.ok || !res.body *)
FetchRespondsNotOk(i) ==
  /\ Awaiting(i, "fetch")
  /\ FailWith(i, "server")

(* fetch resolves with an event stream (lines 696-699) that will carry    *)
(* `text` in tokens of one character                                       *)
FetchRespondsStream(i, text) ==
  /\ Awaiting(i, "fetch")
  /\ requests' = [requests EXCEPT ![i].pc = "stream", ![i].upstream = text]
  /\ UNCHANGED <<sceneVars, api, messages, loading, abortControllerRef,
                 lastSend, call, wellFormed, relayVars, auxVars>>

(* a `data: {"token": c}` line is read (lines 730-734) *)
StreamToken(i) ==
  /\ Awaiting(i, "stream")
  /\ requests[i].upstream # <<>>
  /\ requests' = [requests EXCEPT
       ![i].accumulated = Append(@, Head(requests[i].upstream)),
       ![i].upstream = Tail(@)]
  /\ UNCHANGED <<sceneVars, api, messages, loading, abortControllerRef,
                 lastSend, call, wellFormed, relayVars, auxVars>>

(* a `data: {"error": ..}` line is read (lines 718-729) *)
StreamErrorEvent(i) ==
  /\ Awaiting(i, "stream")
  /\ FailWith(i, "stream")

(* reader.read() reports done (lines 703, 741-744); the relay closes the  *)
(* stream also when its upstream broke off early                           *)
StreamEnds(i) ==
  /\ Awaiting(i, "stream")
  /\ IF requests[i].accumulated # <<>>
       THEN Process(i, requests[i].accumulated)
       ELSE EndSilently(i)

(* reader.read() rejects: the connection broke *)
StreamReadRejects(i) ==
  /\ Awaiting(i, "stream")
  /\ FailWith(i, "network")

(* handleClearChat (lines 863-867) with handleClearCanvas *)
HandleClearChat ==
  /\ Len(messages) > 0
  /\ messages' = <<>>
  /\ scene' = IF api THEN <<>> ELSE scene
  /\ requests' = [i \in DOMAIN requests |->
                    IF i \in InFlight /\ api
                      THEN [requests[i] EXCEPT !.cleared = TRUE]
                      ELSE requests[i]]
  /\ UNCHANGED <<batchCounter, randomIds, api, loading, abortControllerRef,
                 lastSend, call, wellFormed, relayVars, auxVars>>

(* handleAPIReady: the canvas has mounted *)
HandleAPIReady ==
  /\ ~api
  /\ api' = TRUE
  /\ UNCHANGED <<sceneVars, messages, loading, abortControllerRef, requests,
                 lastSend, call, wellFormed, relayVars, auxVars>>

InitChat ==
  /\ scene = <<>>
  /\ batchCounter = 0
  /\ randomIds = 0
  /\ call = NoCall
  /\ wellFormed = TRUE
  /\ api = FALSE
  /\ messages = <<>>
  /\ loading = FALSE
  /\ abortControllerRef = 0
  /\ requests = <<>>
  /\ lastSend = [prompt |-> "", during |-> 0]
  /\ RelayIdle
  /\ AuxIdle

NextChat ==
  \/ HandleAPIReady
  \/ \E prompt \in Prompts : SendMessage(prompt)
  \/ \E k \in DOMAIN messages : HandleRetry(k)
  \/ CancelRequest
  \/ HandleClearChat
  \/ \E i \in DOMAIN requests : HandleAbort(i)
  \/ \E i \in DOMAIN requests : FetchRejects(i)
  \/ \E i \in DOMAIN requests, ok \in BOOLEAN : FetchRespondsJson(i, ok)
  \/ \E i \in DOMAIN requests, content \in ResponseTexts \cup {<<>>} :
       JsonResolves(i, content)
  \/ \E i \in DOMAIN requests : JsonRejects(i)
  \/ \E i \in DOMAIN requests : FetchRespondsNotOk(i)
  \/ \E i \in DOMAIN requests, text \in ResponseTexts :
       FetchRespondsStream(i, text)
  \/ \E i \in DOMAIN requests : StreamToken(i)
  \/ \E i \in DOMAIN requests : StreamErrorEvent(i)
  \/ \E i \in DOMAIN requests : StreamEnds(i)
  \/ \E i \in DOMAIN requests : StreamReadRejects(i)

SpecChat == InitChat /\ [][NextChat]_vars

----------------------------------------------------------------------------
(* The relay, app/api/chat/route.ts: one POST and its timeout timer.       *)
(* Time passes in ticks; the timer of line 63 fires when `elapsed` reaches *)
(* TimeoutTicks and it is still armed.                                     *)

JsonResponse(status, error) ==
  [status |-> status, error |-> error, body |-> "json"]

ContentResponse == [status |-> 200, error |-> "", body |-> "content"]

StreamResponse == [status |-> 200, error |-> "", body |-> "stream"]

(* The request bodies: text that is not JSON; the JSON value null; JSON    *)
(* objects without messages, with messages that is not an array, with an   *)
(* empty messages array; and a well-formed body.                           *)
RequestBodies ==
  {"invalid", "null", "nomessages", "notarray", "empty", "valid"}

(* what the framework answers when the handler throws: status 500, no JSON *)
(* error body of the relay                                                 *)
UnhandledError == [status |-> 500, error |-> "", body |-> "none"]

(* The lines of the upstream stream: a chunk with delta.content, the       *)
(* [DONE] sentinel, a chunk without content, text that is not JSON, a line *)
(* that is not a data line, and a payload {"error": ..}                    *)
UpstreamEvents ==
  {"token", "done", "emptydelta", "malformed", "comment", "error"}

(* the POST returns: `finally { clearTimeout(timeout) }`, lines 208-210 *)
Respond(response) ==
  /\ relay' = [relay EXCEPT !.pc = "done", !.timer = FALSE,
                            !.response = response]
  /\ UNCHANGED elapsed

RelayAwaiting(pc) ==
  /\ relay.pc = pc
  /\ ~relay.aborted

(* a response returned before the upstream request *)
RespondTo(body, response) ==
  /\ relay' = [relay EXCEPT !.pc = "done", !.response = response,
                            !.body = body]
  /\ UNCHANGED elapsed

RelayFrame == UNCHANGED <<sceneVars, chatVars, call, wellFormed, auxVars>>

(* lines 21-63: the body is validated, then the timer is armed *)
Post(body) ==
  /\ relay.pc = "idle"
  /\ IF body = "invalid"
       THEN RespondTo(body, JsonResponse(400, "Invalid JSON body"))
     ELSE IF body = "null"
       THEN RespondTo(body, UnhandledError)
     ELSE IF body \in {"nomessages", "notarray", "empty"}
       THEN RespondTo(body, JsonResponse(400, "messages array is required"))
     ELSE /\ relay' = [relay EXCEPT !.pc = "fetch", !.timer = TRUE,
                                    !.body = body, !.fetched = TRUE]
          /\ elapsed' = 0
  /\ RelayFrame

(* a unit of time passes while the relay has not finished; the timer and  *)
(* the rejection it causes come first                                     *)
Tick ==
  /\ relay.pc \in {"fetch", "text", "json", "stream"}
  /\ ~(relay.timer /\ elapsed = TimeoutTicks)
  /\ ~relay.aborted
  /\ elapsed < TimeoutTicks + MaxOvertime
  /\ elapsed' = elapsed + 1
  /\ UNCHANGED relay
  /\ RelayFrame

(* line 63: () => controller.abort() *)
TimerFires ==
  /\ relay.timer
  /\ elapsed = TimeoutTicks
  /\ relay' = [relay EXCEPT !.timer = FALSE, !.aborted = TRUE]
  /\ UNCHANGED elapsed
  /\ RelayFrame

(* lines 194-200: the pending await of lines 71, 85 or 103 rejects with   *)
(* an AbortError                                                          *)
AwaitAborted ==
  /\ relay.pc \in {"fetch", "text", "json"}
  /\ relay.aborted
  /\ Respond(JsonResponse(504, "LLM request timed out"))
  /\ RelayFrame

(* lines 201-207: the await rejects for another reason *)
AwaitRejects ==
  /\ \/ RelayAwaiting("fetch")
     \/ RelayAwaiting("text")
     \/ RelayAwaiting("json")
  /\ Respond(JsonResponse(502, "Failed to reach LLM server"))
  /\ RelayFrame

(* line 84: the upstream answers with a non-2xx status *)
UpstreamNotOk ==
  /\ RelayAwaiting("fetch")
  /\ relay' = [relay EXCEPT !.pc = "text"]
  /\ UNCHANGED elapsed
  /\ RelayFrame

(* lines 85-92 *)
TextResolves ==
  /\ RelayAwaiting("text")
  /\ Respond(JsonResponse(502, "LLM server error"))
  /\ RelayFrame

(* lines 96-101: the upstream answers 2xx with application/json *)
UpstreamJson ==
  /\ RelayAwaiting("fetch")
  /\ relay' = [relay EXCEPT !.pc = "json"]
  /\ UNCHANGED elapsed
  /\ RelayFrame

(* lines 103-114 *)
RelayJsonResolves(hasContent) ==
  /\ RelayAwaiting("json")
  /\ Respond(IF hasContent THEN ContentResponse
             ELSE JsonResponse(502, "No content in LLM response"))
  /\ RelayFrame

(* lines 118-193 and 208-210: the upstream answers 2xx with a stream; the *)
(* streaming Response is returned, which clears the timer, and start()    *)
(* goes on reading                                                        *)
UpstreamStream ==
  /\ RelayAwaiting("fetch")
  /\ relay' = [relay EXCEPT !.pc = "stream", !.timer = FALSE,
                            !.response = StreamResponse]
  /\ UNCHANGED elapsed
  /\ RelayFrame

(* lines 144-167: what one upstream line puts on the response stream *)
Forward(ev) ==
  IF ev = "token" THEN <<"token">>
  ELSE IF ev = "done" THEN <<"[DONE]">>
  ELSE <<>>

(* lines 137-167: reader.read() yields a line.  On a response stream that *)
(* was cancelled, enqueue throws a TypeError: the loop is left through the *)
(* catch of line 169, and close() of line 181 throws again, before         *)
(* releaseLock() of line 182.                                              *)
ReadEvent(ev) ==
  /\ RelayAwaiting("stream")
  /\ relay.read < MaxUpstreamEvents
  /\ relay' = IF relay.cancelled /\ Forward(ev) # <<>>
                THEN [relay EXCEPT !.read = @ + 1, !.lines = Append(@, ev),
                                   !.pc = "done"]
                ELSE [relay EXCEPT !.read = @ + 1, !.lines = Append(@, ev),
                                   !.events = @ \o Forward(ev)]
  /\ UNCHANGED elapsed
  /\ RelayFrame

(* lines 138 and 180-183: the upstream ends, or lines 169-183: the read   *)
(* rejects with an error that is not an AbortError, which goes unreported *)
ReadEnds ==
  /\ RelayAwaiting("stream")
  /\ relay' = [relay EXCEPT !.pc = "done", !.closed = ~relay.cancelled,
                            !.released = ~relay.cancelled]
  /\ UNCHANGED elapsed
  /\ RelayFrame

(* cancelRequest in the browser (AIChatPanel.tsx lines 613-618) while the  *)
(* relay streams: the connection is closed.  The route registers nothing   *)
(* on req.signal and gives the ReadableStream no cancel(); whether the     *)
(* server cancels the response stream is up to the runtime.                *)
CallerAborts(cancels) ==
  /\ RelayAwaiting("stream")
  /\ ~relay.callerGone
  /\ relay' = [relay EXCEPT !.callerGone = TRUE, !.cancelled = cancels,
                            !.readAtAbort = relay.read]
  /\ UNCHANGED elapsed
  /\ RelayFrame

NextRelay ==
  \/ \E body \in RequestBodies : Post(body)
  \/ Tick
  \/ TimerFires
  \/ AwaitAborted
  \/ AwaitRejects
  \/ UpstreamNotOk
  \/ TextResolves
  \/ UpstreamJson
  \/ \E hasContent \in BOOLEAN : RelayJsonResolves(hasContent)
  \/ UpstreamStream
  \/ \E ev \in UpstreamEvents : ReadEvent(ev)
  \/ ReadEnds
  \/ \E cancels \in BOOLEAN : CallerAborts(cancels)

InitRelay ==
  /\ scene = <<>>
  /\ batchCounter = 0
  /\ randomIds = 0
  /\ call = NoCall
  /\ wellFormed = TRUE
  /\ ChatIdle
  /\ RelayIdle
  /\ AuxIdle

SpecRelay == InitRelay /\ [][NextRelay]_vars

----------------------------------------------------------------------------
(* SpecStream: the read loop of sendMessage (AIChatPanel.tsx 696-744) over *)
(* one event stream.  The stream is a sequence of units: "data:", " ",     *)
(* "\n", "[DONE]", "{", "}", the keys "T" (`"token":`) and "E"             *)
(* (`"error":`), and quoted strings, written as their text.  A chunk is    *)
(* any non-empty run of units, so a read may end inside a line.            *)

Tokens == {"Hi", " there", ""}

(* units of the longest stream: a token event has 8, [DONE] has 5 *)
MaxWire == Len(<<"data:", " ", "{", "T", "", "}", "\n", "\n">>) * MaxTokens
           + Len(<<"data:", " ", "[DONE]", "\n", "\n">>)

TokenLists ==
  UNION {[1..n -> Tokens] : n \in 0..MaxTokens}

(* `data: {"token": t}\n\n` *)
TokenEvent(t) == <<"data:", " ", "{", "T", t, "}", "\n", "\n">>

(* `data: [DONE]\n\n` *)
DoneEvent == <<"data:", " ", "[DONE]", "\n", "\n">>

RECURSIVE EncodeTokens(_)
EncodeTokens(tokens) ==
  IF tokens = <<>> THEN <<>>
  ELSE TokenEvent(Head(tokens)) \o EncodeTokens(Tail(tokens))

RECURSIVE Concat(_)
Concat(tokens) ==
  IF tokens = <<>> THEN "" ELSE Head(tokens) \o Concat(Tail(tokens))

(* buffer.split("\n"): the pieces between the line ends, the last one     *)
(* being what follows the last line end                                    *)
RECURSIVE Split(_)
Split(buf) ==
  IF \A k \in DOMAIN buf : buf[k] # "\n" THEN <<buf>>
  ELSE LET k == CHOOSE j \in DOMAIN buf :
                  buf[j] = "\n" /\ \A h \in 1..(j - 1) : buf[h] # "\n"
       IN <<SubSeq(buf, 1, k - 1)>> \o Split(SubSeq(buf, k + 1, Len(buf)))

(* line.trim() *)
RECURSIVE Trim(_)
Trim(line) ==
  IF line = <<>> THEN line
  ELSE IF Head(line) = " " THEN Trim(Tail(line))
  ELSE IF line[Len(line)] = " " THEN Trim(SubSeq(line, 1, Len(line) - 1))
  ELSE line

(* JSON.parse(payload) and the fields the loop looks at (lines 716-737) *)
ParsePayload(payload) ==
  IF Len(payload) = 4 /\ payload[1] = "{" /\ payload[4] = "}"
     /\ payload[2] \in {"T", "E"}
     /\ payload[3] \notin {"{", "}", "T", "E", "[DONE]", "data:", " ", "\n"}
    THEN [kind |-> IF payload[2] = "T" THEN "token" ELSE "error",
          text |-> payload[3]]
    ELSE [kind |-> "malformed", text |-> ""]

(* lines 709-738 for one line: the accumulated text after it, and whether *)
(* the loop returned on an error payload                                  *)
ClientLine(line, acc) ==
  LET trimmed == Trim(line)
      payload == SubSeq(trimmed, 3, Len(trimmed))
      data == ParsePayload(payload)
  IN IF acc.failed THEN acc
     ELSE IF \/ Len(trimmed) < 2
             \/ trimmed[1] # "data:"
             \/ trimmed[2] # " " THEN acc
     ELSE IF payload = <<"[DONE]">> THEN acc
     ELSE IF data.kind = "error" /\ data.text # ""
       THEN [acc EXCEPT !.failed = TRUE]
     ELSE IF data.kind = "token" /\ data.text # ""
       THEN [acc EXCEPT !.accumulated = @ \o data.text]
     ELSE acc

RECURSIVE ClientLines(_, _)
ClientLines(lines, acc) ==
  IF lines = <<>> THEN acc
  ELSE ClientLines(Tail(lines), ClientLine(Head(lines), acc))

StreamFrame ==
  UNCHANGED <<sceneVars, chatVars, call, wellFormed, relayVars, parse,
              linear, storeVars, extraVars>>

(* lines 702-739: reader.read() yields the next n units of the stream *)
ReadChunk(n) ==
  /\ stream.pc = "reading"
  /\ n \in 1..Len(stream.wire)
  /\ LET buf == stream.buffer \o SubSeq(stream.wire, 1, n)
         lines == Split(buf)
         acc == ClientLines(SubSeq(lines, 1, Len(lines) - 1),
                            [accumulated |-> stream.accumulated,
                             failed |-> FALSE])
     IN stream' = [stream EXCEPT
          !.wire = SubSeq(@, n + 1, Len(@)),
          !.buffer = IF acc.failed THEN <<>> ELSE lines[Len(lines)],
          !.accumulated = acc.accumulated,
          !.pc = IF acc.failed THEN "done" ELSE "reading",
          !.outcome = IF acc.failed THEN "error" ELSE "none"]
  /\ StreamFrame

(* lines 703 and 741-744: the stream has ended *)
ReadDone ==
  /\ stream.pc = "reading"
  /\ stream.wire = <<>>
  /\ stream' = [stream EXCEPT
       !.pc = "done", !.buffer = <<>>,
       !.outcome = IF stream.accumulated # "" THEN "parsed" ELSE "silent",
       !.handed = stream.accumulated]
  /\ StreamFrame

NextStream ==
  \/ \E n \in 1..MaxWire : ReadChunk(n)
  \/ ReadDone

InitStream ==
  /\ scene = <<>>
  /\ batchCounter = 0
  /\ randomIds = 0
  /\ call = NoCall
  /\ wellFormed = TRUE
  /\ ChatIdle
  /\ RelayIdle
  /\ ParseIdle
  /\ LinearIdle
  /\ StoreIdle
  /\ ExtraIdle
  /\ \E tokens \in TokenLists :
       stream = [NoStream EXCEPT !.tokens = tokens,
                                 !.wire = EncodeTokens(tokens) \o DoneEvent,
                                 !.pc = "reading"]

SpecStream == InitStream /\ [][NextStream]_vars

----------------------------------------------------------------------------
(* SpecParse: processLLMResponse (AIChatPanel.tsx 778-852) on one text,    *)
(* and on the same text between "noise " and " noise".                     *)

ParseChars == {"{", "}", "[", "]", "A", "n", "1", "x", " "}

ParserTexts == UNION {[1..n -> ParseChars] : n \in 0..MaxTextLen}

(* "noise " + content + " noise" *)
WithNoise(content) == <<"x", " ">> \o content \o <<" ", "x">>

ParseFrame ==
  UNCHANGED <<sceneVars, chatVars, call, wellFormed, relayVars, stream,
              linear, storeVars, extraVars>>

(* what processLLMResponse hands to onElementsGenerated (lines 833-834) *)
HandedAction(r) ==
  IF r.generated THEN ActionOrDefault(DocOf(r.doc).parsedAction) ELSE ""

HandedElements(r) ==
  IF r.generated THEN DocOf(r.doc).skeletons ELSE <<>>

RunParser ==
  /\ parse.pc = "ready"
  /\ LET r == processLLMResponse(parse.content)
         rn == processLLMResponse(WithNoise(parse.content))
     IN parse' = [parse EXCEPT
          !.pc = "done",
          !.plain = r.result,
          !.action = HandedAction(r),
          !.elements = HandedElements(r),
          !.noisy = rn.result,
          !.noisyAction = HandedAction(rn),
          !.noisyElements = HandedElements(rn)]
  /\ ParseFrame

NextParse == RunParser

InitParse ==
  /\ scene = <<>>
  /\ batchCounter = 0
  /\ randomIds = 0
  /\ call = NoCall
  /\ wellFormed = TRUE
  /\ ChatIdle
  /\ RelayIdle
  /\ StreamIdle
  /\ LinearIdle
  /\ StoreIdle
  /\ ExtraIdle
  /\ \E content \in ParserTexts :
       parse = [NoParse EXCEPT !.content = content, !.pc = "ready"]

SpecParse == InitParse /\ [][NextParse]_vars

----------------------------------------------------------------------------
(* SpecNormalize: normalizeLinearElements (ExcalidrawApp.tsx 64-90) on one *)
(* batch of cloned elements, applied once and then once more.              *)

Coord == -1..1

(* the first point is anywhere, the later ones are one of two points *)
Points ==
  UNION {{p \in [1..n -> Coord \X Coord] :
            \A k \in 2..n : p[k] \in {<<0, 0>>, <<1, -1>>}} :
         n \in 0..MaxPoints}

(* a binding: null, an object without a numeric focus, or one with it *)
Bindings ==
  {[kind |-> "null", focus |-> 0], [kind |-> "nofocus", focus |-> 0]}
  \cup [kind : {"focus"}, focus : -MaxFocus..MaxFocus]

EndBindings == {b \in Bindings : b.kind # "nofocus"}

LinearElements ==
  [type : {"arrow", "line", "rectangle"}, pos : {<<0, 0>>, <<1, -1>>},
   points : Points, startBinding : Bindings, endBinding : EndBindings]

OtherShape ==
  [type |-> "rectangle", pos |-> <<0, 0>>, points |-> <<>>,
   startBinding |-> [kind |-> "null", focus |-> 0],
   endBinding |-> [kind |-> "null", focus |-> 0]]

SkewedArrow ==
  [type |-> "arrow", pos |-> <<0, 0>>, points |-> <<<<1, 1>>, <<0, 1>>>>,
   startBinding |-> [kind |-> "focus", focus |-> MaxFocus],
   endBinding |-> [kind |-> "null", focus |-> 0]]

LinearBatches ==
  {<<e>> : e \in LinearElements}
  \cup {<<OtherShape, e>> : e \in LinearElements}
  \cup {<<e, SkewedArrow>> : e \in LinearElements}

Max(a, b) == IF a >= b THEN a ELSE b

Min(a, b) == IF a <= b THEN a ELSE b

(* Math.max(-1, Math.min(1, focus)), lines 82 and 86 *)
ClampFocus(binding) ==
  IF binding.kind = "focus"
    THEN [binding EXCEPT !.focus = Max(-1, Min(1, binding.focus))]
    ELSE binding

ShiftPositionOnly(el) ==
  LET dx == el.points[1][1]
      dy == el.points[1][2]
  IN IF dx # 0 \/ dy # 0
       THEN [el EXCEPT !.pos = <<el.pos[1] + dx, el.pos[2] + dy>>]
       ELSE el

ShiftPointsOnly(el) ==
  LET dx == el.points[1][1]
      dy == el.points[1][2]
  IN IF dx # 0 \/ dy # 0
       THEN [el EXCEPT
              !.points = [k \in DOMAIN el.points |->
                            <<el.points[k][1] - dx, el.points[k][2] - dy>>]]
       ELSE el

(* lines 70-76: make the first point [0,0] and move the element *)
ShiftToOrigin(el) ==
  LET dx == el.points[1][1]
      dy == el.points[1][2]
  IN IF dx # 0 \/ dy # 0
       THEN [el EXCEPT
              !.pos = <<el.pos[1] + dx, el.pos[2] + dy>>,
              !.points = [k \in DOMAIN el.points |->
                            <<el.points[k][1] - dx, el.points[k][2] - dy>>]]
       ELSE el

(* the body of the loop, lines 66-87, for one element *)
NormalizeElement(el) ==
  IF el.type # "arrow" /\ el.type # "line" THEN el
  ELSE IF Len(el.points) < 2 THEN el
  ELSE LET shifted == ShiftToOrigin(el)
       IN [shifted EXCEPT !.startBinding = ClampFocus(@),
                          !.endBinding = ClampFocus(@)]

normalizeLinearElements(elements) ==
  [k \in DOMAIN elements |-> NormalizeElement(elements[k])]

LinearFrame ==
  UNCHANGED <<sceneVars, chatVars, call, wellFormed, relayVars, stream,
              parse, storeVars, extraVars>>

Normalize ==
  /\ linear.pc = "cloned"
  /\ linear' = [linear EXCEPT !.pc = "once",
                              !.once = normalizeLinearElements(linear.input)]
  /\ LinearFrame

NormalizeAgain ==
  /\ linear.pc = "once"
  /\ linear' = [linear EXCEPT !.pc = "twice",
                              !.twice = normalizeLinearElements(linear.once)]
  /\ LinearFrame

NextNormalize == Normalize \/ NormalizeAgain

InitNormalize ==
  /\ scene = <<>>
  /\ batchCounter = 0
  /\ randomIds = 0
  /\ call = NoCall
  /\ wellFormed = TRUE
  /\ ChatIdle
  /\ RelayIdle
  /\ StreamIdle
  /\ ParseIdle
  /\ StoreIdle
  /\ ExtraIdle
  /\ \E elements \in LinearBatches :
       linear = [NoLinear EXCEPT !.input = elements, !.pc = "cloned"]

SpecNormalize == InitNormalize /\ [][NextNormalize]_vars

----------------------------------------------------------------------------
(* Persistence (SpecPersist): the page with its two localStorage items.    *)
(* AIChatPanel keeps the transcript under STORAGE_KEY, ExcalidrawApp keeps *)
(* the canvas under CANVAS_STORAGE_KEY through a debounced save. One       *)
(* request may be in flight; its answer is either a document that adds one *)
(* element or an error. A reload unloads the page (the request in flight   *)
(* and the pending timer are lost with it) and mounts it again.            *)

PersistPrompts == {"p"}

(* AIChatPanel.tsx lines 556-566: the stored transcript, if any *)
LoadTranscript(item) == IF item.present THEN item.value ELSE <<>>

(* AIChatPanel.tsx lines 596-605: the save effect skips an empty transcript *)
SaveTranscript(item, entries) ==
  IF Len(entries) > 0 THEN Item(entries) ELSE item

RestoreCanvasNever(item) == <<>>

(* ExcalidrawApp.tsx lines 144-160: a stored non-empty array is restored *)
RestoreCanvas(item) ==
  IF item.present /\ Len(item.value) > 0 THEN item.value ELSE <<>>

(* ExcalidrawApp.tsx lines 162-174: onChange replaces the pending timer by *)
(* one that will store the elements it was called with.                    *)
saveCanvasToStorage(elements) == [armed |-> TRUE, elements |-> elements]

(* hist after the transcript became entries *)
NoteTranscript(h, entries) ==
  IF Len(entries) > 0
    THEN [h EXCEPT !.lastTranscript = entries, !.chatRemoved = FALSE]
    ELSE h

PersistFrame == UNCHANGED <<abortControllerRef, requests, lastSend, call,
                            wellFormed, relayVars, stream, parse, linear,
                            extraVars>>

(* the Excalidraw component mounts: onAPIReady, the restore effect, and    *)
(* onChange with the scene that results                                    *)
MountCanvas ==
  /\ ~api
  /\ api' = TRUE
  /\ scene' = RestoreCanvas(storage.canvas)
  /\ saveTimer' = saveCanvasToStorage(scene')
  /\ hist' = [hist EXCEPT
       !.phase = IF hist.phase = "reloaded" THEN "restored" ELSE @]
  /\ UNCHANGED <<batchCounter, randomIds, messages, loading, storage>>
  /\ PersistFrame

(* sendMessage up to the fetch *)
Submit(prompt) ==
  /\ ~loading
  /\ ~Blank(prompt)
  /\ Len(messages) + 2 <= MaxTranscript
  /\ messages' = Append(messages, UserEntry(prompt))
  /\ loading' = TRUE
  /\ storage' = [storage EXCEPT !.chat = SaveTranscript(@, messages')]
  /\ hist' = [NoteTranscript(hist, messages') EXCEPT
       !.afterClear = FALSE, !.phase = "changed",
       !.pending = prompt, !.pendingReady = api]
  /\ UNCHANGED <<sceneVars, api, saveTimer>>
  /\ PersistFrame

(* the answer is a document: processLLMResponse draws it and the entry is  *)
(* appended                                                                *)
RespondDocument ==
  /\ hist.pending # ""
  /\ batchCounter < MaxDraws
  /\ Len(scene) < MaxSceneLen
  /\ handleElementsGenerated(hist.pendingReady /\ api,
                             DocOf("A").skeletons, "add")
  /\ messages' = Append(messages, AssistantEntry("generated"))
  /\ loading' = FALSE
  /\ storage' = [storage EXCEPT !.chat = SaveTranscript(@, messages')]
  /\ saveTimer' = IF scene' # scene THEN saveCanvasToStorage(scene')
                  ELSE saveTimer
  /\ hist' = [NoteTranscript(hist, messages') EXCEPT
       !.pending = "", !.pendingReady = FALSE,
       !.phase = "changed"]
  /\ UNCHANGED api
  /\ PersistFrame

(* the answer is a failure: the error entry is appended *)
RespondError ==
  /\ hist.pending # ""
  /\ messages' = Append(messages, ErrorEntry("network", hist.pending))
  /\ loading' = FALSE
  /\ storage' = [storage EXCEPT !.chat = SaveTranscript(@, messages')]
  /\ hist' = [NoteTranscript(hist, messages') EXCEPT
       !.pending = "", !.pendingReady = FALSE,
       !.phase = "changed"]
  /\ UNCHANGED <<sceneVars, api, saveTimer>>
  /\ PersistFrame

(* the user draws one element on the canvas: onChange *)
UserEdit ==
  /\ api
  /\ Len(scene) < MaxSceneLen
  /\ scene' = Append(scene, [id |-> "u" \o ToString(Len(scene) + 1),
                             text |-> "v1"])
  /\ saveTimer' = saveCanvasToStorage(scene')
  /\ hist' = [hist EXCEPT !.afterClear = FALSE, !.phase = "changed"]
  /\ UNCHANGED <<batchCounter, randomIds, api, messages, loading, storage>>
  /\ PersistFrame

(* the debounce timer fires: localStorage.setItem(CANVAS_STORAGE_KEY, ..) *)
SaveTimerFires ==
  /\ saveTimer.armed
  /\ storage' = [storage EXCEPT !.canvas = Item(saveTimer.elements)]
  /\ saveTimer' = NoTimer
  /\ hist' = [hist EXCEPT !.lastFired = saveTimer.elements,
                          !.canvasRemoved = FALSE]
  /\ UNCHANGED <<sceneVars, api, messages, loading>>
  /\ PersistFrame

(* handleClearChat, and handleClearCanvas through onClearCanvas; the       *)
(* updateScene of handleClearCanvas is followed by onChange                *)
ClearChat ==
  /\ Len(messages) > 0
  /\ messages' = <<>>
  /\ scene' = IF api THEN <<>> ELSE scene
  /\ storage' = [chat |-> NoItem,
                 canvas |-> IF api THEN NoItem ELSE storage.canvas]
  /\ saveTimer' = IF api THEN saveCanvasToStorage(<<>>) ELSE saveTimer
  /\ hist' = [hist EXCEPT !.afterClear = TRUE, !.phase = "changed",
                          !.chatRemoved = TRUE,
                          !.canvasRemoved = IF api THEN TRUE ELSE @]
  /\ UNCHANGED <<batchCounter, randomIds, api, loading>>
  /\ PersistFrame

(* the page is reloaded: module and component state start again, the chat  *)
(* panel mounts and loads the stored transcript                            *)
Reload ==
  /\ messages' = LoadTranscript(storage.chat)
  /\ loading' = FALSE
  /\ api' = FALSE
  /\ scene' = <<>>
  /\ batchCounter' = 0
  /\ randomIds' = 0
  /\ saveTimer' = NoTimer
  /\ hist' = [hist EXCEPT !.phase = "reloaded", !.pending = "",
                          !.pendingReady = FALSE]
  /\ UNCHANGED storage
  /\ PersistFrame

NextPersist ==
  \/ MountCanvas
  \/ \E prompt \in PersistPrompts : Submit(prompt)
  \/ RespondDocument
  \/ RespondError
  \/ UserEdit
  \/ SaveTimerFires
  \/ ClearChat
  \/ Reload

InitPersist ==
  /\ scene = <<>>
  /\ batchCounter = 0
  /\ randomIds = 0
  /\ call = NoCall
  /\ wellFormed = TRUE
  /\ api = FALSE
  /\ messages = <<>>
  /\ loading = FALSE
  /\ abortControllerRef = 0
  /\ requests = <<>>
  /\ lastSend = [prompt |-> "", during |-> 0]
  /\ RelayIdle
  /\ AuxIdle

SpecPersist == InitPersist /\ [][NextPersist]_vars

----------------------------------------------------------------------------
(* SpecPrefix: prefixIds applied once to any batch of skeletons, arrows    *)
(* with start and end bindings included.  "c" is an id that no skeleton of *)
(* a batch has.                                                            *)

BatchIds == {"a", "b"}

Refs == {NoRef} \cup {Ref(id) : id \in BatchIds \cup {"c"}}

RefSkeletons ==
  [hasId : {TRUE}, id : BatchIds, text : {"v1"}, start : Refs, end : Refs]
    \cup [hasId : {FALSE}, id : {""}, text : {"v1"}, start : Refs,
          end : Refs]

RefBatches == UNION {[1..n -> RefSkeletons] : n \in 1..MaxBatchLen}

PrefixFrame ==
  UNCHANGED <<sceneVars, chatVars, call, wellFormed, relayVars, stream,
              parse, linear, storeVars, debounce, upstream, fallback>>

(* line 193: prefixIds(skeletons) of an add batch *)
PrefixBatch ==
  /\ prefixed.pc = "given"
  /\ prefixed' = [prefixed EXCEPT
       !.pc = "done",
       !.output = prefixIds(prefixed.input, prefixed.n)]
  /\ PrefixFrame

(* the result is handed on; the next batch has its own call *)
PrefixReturn ==
  /\ prefixed.pc = "done"
  /\ prefixed' = [prefixed EXCEPT !.pc = "returned"]
  /\ PrefixFrame

NextPrefix == PrefixBatch \/ PrefixReturn

InitPrefix ==
  /\ scene = <<>>
  /\ batchCounter = 0
  /\ randomIds = 0
  /\ call = NoCall
  /\ wellFormed = TRUE
  /\ ChatIdle
  /\ RelayIdle
  /\ StreamIdle
  /\ ParseIdle
  /\ LinearIdle
  /\ StoreIdle
  /\ DebounceIdle
  /\ UpstreamIdle
  /\ FallbackIdle
  /\ \E skeletons \in RefBatches, n \in 1..(MaxAddBatches + 1) :
       prefixed = [pc |-> "given", input |-> skeletons, n |-> n,
                   output |-> <<>>]

SpecPrefix == InitPrefix /\ [][NextPrefix]_vars

----------------------------------------------------------------------------
(* SpecDebounce: saveCanvasToStorage with time.  Time passes in ticks, the *)
(* delay of 2000 ms is DebounceTicks, and a timeout that is due fires      *)
(* before anything else happens.  The elements of the n-th onChange are    *)
(* called n.                                                               *)

ScheduleKeepingOld(timers, elements) ==
  Append(timers, [left |-> DebounceTicks, elements |-> elements])

(* lines 163-172: clearTimeout of the pending timeout, then setTimeout *)
Schedule(timers, elements) ==
  <<[left |-> DebounceTicks, elements |-> elements]>>

Due(timers) == {k \in DOMAIN timers : timers[k].left = 0}

DebounceFrame ==
  UNCHANGED <<sceneVars, chatVars, call, wellFormed, relayVars, stream,
              parse, linear, storeVars, prefixed, upstream, fallback>>

(* Excalidraw's onChange: saveCanvasToStorage(elements) *)
Change ==
  /\ debounce.scene < MaxChanges
  /\ Due(debounce.timers) = {}
  /\ debounce' = [debounce EXCEPT
       !.scene = @ + 1,
       !.timers = Schedule(@, debounce.scene + 1),
       !.bursts = IF debounce.timers = <<>> THEN @ + 1 ELSE @]
  /\ DebounceFrame

(* a tick passes while a timeout is pending *)
Wait ==
  /\ debounce.timers # <<>>
  /\ Due(debounce.timers) = {}
  /\ debounce' = [debounce EXCEPT
       !.timers = [k \in DOMAIN @ |-> [@[k] EXCEPT !.left = @ - 1]]]
  /\ DebounceFrame

(* lines 165-171: the timeout fires, localStorage.setItem *)
SaveFires ==
  /\ Due(debounce.timers) # {}
  /\ LET k == CHOOSE d \in Due(debounce.timers) :
                \A e \in Due(debounce.timers) : d <= e
     IN debounce' = [debounce EXCEPT
          !.stored = debounce.timers[k].elements,
          !.writes = @ + 1,
          !.timers = SelectSeq(@, LAMBDA t : t # debounce.timers[k])]
  /\ DebounceFrame

NextDebounce == Change \/ Wait \/ SaveFires

InitDebounce ==
  /\ scene = <<>>
  /\ batchCounter = 0
  /\ randomIds = 0
  /\ call = NoCall
  /\ wellFormed = TRUE
  /\ ChatIdle
  /\ RelayIdle
  /\ AuxIdle

(* time goes on and a due timeout fires *)
SpecDebounce ==
  /\ InitDebounce
  /\ [][NextDebounce]_vars
  /\ WF_vars(Wait)
  /\ WF_vars(SaveFires)

----------------------------------------------------------------------------
(* SpecUpstream: the messages the relay sends to the model server, built   *)
(* from the body of one accepted request.  The content of the i-th entry   *)
(* of body.messages is called i. An entry has the role "system" (any role  *)
(* other than user and assistant) or the one a conversation would have at  *)
(* its place.                                                              *)

TurnRole(i) == IF i % 2 = 1 THEN "user" ELSE "assistant"

BodyMessages ==
  UNION {{[i \in 1..n |->
             [role |-> IF i \in others THEN "system" ELSE TurnRole(i),
              content |-> i]] : others \in SUBSET (1..n)} :
         n \in 1..MaxMessages}

(* lines 45-49: SYSTEM_PROMPT, and the canvas context when there is one *)
SystemMessage(canvasContext) ==
  [role |-> "system",
   content |-> IF canvasContext THEN -1 ELSE 0]

SliceAll(entries) == entries

(* body.messages.slice(-10), line 52 *)
Slice(entries) ==
  SubSeq(entries, Max(1, Len(entries) - RecentCount + 1), Len(entries))

(* lines 42-60 *)
LlmMessages(entries, canvasContext) ==
  <<SystemMessage(canvasContext)>>
    \o SelectSeq(Slice(entries),
                 LAMBDA msg : msg.role = "user" \/ msg.role = "assistant")

UpstreamFrame ==
  UNCHANGED <<sceneVars, chatVars, call, wellFormed, relayVars, stream,
              parse, linear, storeVars, prefixed, debounce, fallback>>

(* the request has passed the checks of lines 21-40 *)
BuildMessages ==
  /\ upstream.pc = "accepted"
  /\ upstream' = [upstream EXCEPT
       !.pc = "built",
       !.llmMessages = LlmMessages(upstream.messages,
                                   upstream.canvasContext)]
  /\ UpstreamFrame

(* line 71: the fetch with the messages as built *)
SendUpstream ==
  /\ upstream.pc = "built"
  /\ upstream' = [upstream EXCEPT !.pc = "sent"]
  /\ UpstreamFrame

NextUpstream == BuildMessages \/ SendUpstream

InitUpstream ==
  /\ scene = <<>>
  /\ batchCounter = 0
  /\ randomIds = 0
  /\ call = NoCall
  /\ wellFormed = TRUE
  /\ ChatIdle
  /\ RelayIdle
  /\ StreamIdle
  /\ ParseIdle
  /\ LinearIdle
  /\ StoreIdle
  /\ PrefixIdle
  /\ DebounceIdle
  /\ FallbackIdle
  /\ \E entries \in BodyMessages, canvasContext \in BOOLEAN :
       upstream = [pc |-> "accepted", messages |-> entries,
                   canvasContext |-> canvasContext, llmMessages |-> <<>>]

SpecUpstream == InitUpstream /\ [][NextUpstream]_vars

----------------------------------------------------------------------------
(* SpecFallback: one model answer, the concatenation of `tokens`, reaches  *)
(* the client twice: as the JSON body of a model server that does not      *)
(* stream (fallback), and as the event stream of SpecStream (stream).      *)

(* route.ts lines 103-114: the relay's answer to a JSON body *)
RelayFallback(content) ==
  IF content = ""
    THEN [response |-> JsonResponse(502, "No content in LLM response"),
          payload |-> ""]
    ELSE [response |-> ContentResponse, payload |-> content]

(* AIChatPanel.tsx lines 663-680: the client's handling of a JSON answer *)
ClientJson(response, payload) ==
  IF response.status # 200 THEN [outcome |-> "error", handed |-> ""]
  ELSE IF payload # "" THEN [outcome |-> "parsed", handed |-> payload]
  ELSE [outcome |-> "silent", handed |-> ""]

FallbackFrame ==
  UNCHANGED <<sceneVars, chatVars, call, wellFormed, relayVars, stream,
              parse, linear, storeVars, prefixed, debounce, upstream>>

(* the upstream answers 2xx with application/json *)
RelayAnswersJson ==
  /\ fallback.pc = "upstream"
  /\ LET r == RelayFallback(fallback.content)
     IN fallback' = [fallback EXCEPT !.pc = "relayed",
                                     !.response = r.response,
                                     !.payload = r.payload]
  /\ FallbackFrame

(* res.json() resolves in the client *)
ClientReadsJson ==
  /\ fallback.pc = "relayed"
  /\ LET c == ClientJson(fallback.response, fallback.payload)
     IN fallback' = [fallback EXCEPT !.pc = "done",
                                     !.outcome = c.outcome,
                                     !.handed = c.handed]
  /\ FallbackFrame

NextFallback ==
  \/ RelayAnswersJson
  \/ ClientReadsJson
  \/ \E n \in 1..MaxWire : ReadChunk(n)
  \/ ReadDone

InitFallback ==
  /\ scene = <<>>
  /\ batchCounter = 0
  /\ randomIds = 0
  /\ call = NoCall
  /\ wellFormed = TRUE
  /\ ChatIdle
  /\ RelayIdle
  /\ ParseIdle
  /\ LinearIdle
  /\ StoreIdle
  /\ PrefixIdle
  /\ DebounceIdle
  /\ UpstreamIdle
  /\ \E tokens \in TokenLists :
       /\ stream = [NoStream EXCEPT !.tokens = tokens,
                                    !.wire = EncodeTokens(tokens) \o DoneEvent,
                                    !.pc = "reading"]
       /\ fallback = [NoFallback EXCEPT !.pc = "upstream",
                                        !.content = Concat(tokens)]

SpecFallback == InitFallback /\ [][NextFallback]_vars

----------------------------------------------------------------------------
(* Claims about the scene reconciler *)

CallAction == ActionOrDefault(call.parsedAction)

(* The elements of the batch as they come out of the converter, unprefixed *)
Incoming == convertToExcalidrawElements(call.skeletons, call.generated)

LastIndex(elements, id) ==
  CHOOSE i \in DOMAIN elements :
    /\ elements[i].id = id
    /\ \A j \in DOMAIN elements : elements[j].id = id => j <= i

(* C1 as stated: modify on a scene with pairwise-distinct ids keeps the     *)
(* existing order, replaces every element whose id occurs in the batch by  *)
(* an incoming element of that id, and appends the incoming elements whose *)
(* ids matched no existing element (all of them, in batch order).          *)
C1_ModifyAsStated ==
  (call.done /\ CallAction = "modify" /\ DistinctIds(call.before)) =>
    LET old == call.before
        n == Len(old)
        unmatched == SelectSeq(Incoming, LAMBDA e : e.id \notin Ids(old))
    IN /\ Len(scene) = n + Len(unmatched)
       /\ \A i \in 1..n :
            IF old[i].id \in Ids(Incoming)
              THEN \E j \in DOMAIN Incoming :
                     Incoming[j].id = old[i].id /\ scene[i] = Incoming[j]
              ELSE scene[i] = old[i]
       /\ SubSeq(scene, n + 1, Len(scene)) = unmatched

(* C1 amended: when the ids of the existing scene are pairwise distinct   *)
(* and the ids of the incoming batch are pairwise distinct too, modify       *)
(* keeps the existing order, replaces every element whose id occurs in the  *)
(* batch by the whole incoming element of that id, and appends the incoming *)
(* elements whose ids matched no existing element, in batch order.          *)
C1_ModifyReconciles ==
  (/\ call.done
   /\ CallAction = "modify"
   /\ DistinctIds(call.before)
   /\ DistinctIds(Incoming)) =>
    LET old == call.before
        n == Len(old)
        unmatched == SelectSeq(Incoming, LAMBDA e : e.id \notin Ids(old))
    IN /\ Len(scene) = n + Len(unmatched)
       /\ \A i \in 1..n :
            scene[i] = IF old[i].id \in Ids(Incoming)
                         THEN Incoming[LastIndex(Incoming, old[i].id)]
                         ELSE old[i]
       /\ SubSeq(scene, n + 1, Len(scene)) = unmatched

(* The example of the specification: [A,B] + modify [B',D] = [A,B',D] *)
C1_Witness ==
  /\ call.done
  /\ CallAction = "modify"
  /\ call.before = <<[id |-> "a", text |-> "v1"], [id |-> "b", text |-> "v1"]>>
  /\ call.skeletons = <<[hasId |-> TRUE, id |-> "b", text |-> "v2",
                         start |-> NoRef, end |-> NoRef],
                        [hasId |-> TRUE, id |-> "b1_a", text |-> "v1",
                         start |-> NoRef, end |-> NoRef]>>
  /\ scene = <<[id |-> "a", text |-> "v1"], [id |-> "b", text |-> "v2"],
               [id |-> "b1_a", text |-> "v1"]>>

(* C2: add leaves every existing element at its position, unchanged, and    *)
(* appends the elements of the batch in batch order, each string id        *)
(* carrying the prefix of the batch.                                       *)
C2_AddAppends ==
  (call.done /\ CallAction = "add") =>
    LET old == call.before
        n == Len(old)
        sk == call.skeletons
        p == "b" \o ToString(call.counter + 1) \o "_"
    IN /\ Len(scene) = n + Len(sk)
       /\ \A i \in 1..n : scene[i] = old[i]
       /\ \A j \in 1..Len(sk) :
            /\ scene[n + j].text = sk[j].text
            /\ sk[j].hasId => scene[n + j].id = p \o sk[j].id

C2_Witness ==
  /\ call.done
  /\ call.parsedAction = "add"
  /\ call.counter = 1
  /\ call.before = <<[id |-> "a", text |-> "v1"], [id |-> "b", text |-> "v1"]>>
  /\ scene = <<[id |-> "a", text |-> "v1"], [id |-> "b", text |-> "v1"],
               [id |-> "b2_a", text |-> "v2"], [id |-> "b2_b", text |-> "v1"]>>

(* C3: replace writes back exactly the elements of the batch, in batch      *)
(* order, with the ids the model wrote; nothing of the old scene remains.  *)
C3_ReplaceIsBatch ==
  (call.done /\ CallAction = "replace") =>
    LET sk == call.skeletons
    IN /\ Len(scene) = Len(sk)
       /\ \A j \in 1..Len(sk) :
            /\ scene[j].text = sk[j].text
            /\ sk[j].hasId => scene[j].id = sk[j].id

C3_Witness ==
  /\ call.done
  /\ CallAction = "replace"
  /\ call.before = <<[id |-> "a", text |-> "v1"], [id |-> "b", text |-> "v1"]>>
  /\ scene = <<[id |-> "b1_a", text |-> "v2"]>>

(* C5 as stated: a response whose action is absent or unrecognised is       *)
(* namespaced by prefixIds and appended, exactly like an "add" batch.      *)
C5_UnknownActionIsAdd ==
  (call.done /\ call.parsedAction \notin {"add", "replace", "modify"}) =>
    /\ batchCounter = call.counter + 1
    /\ scene = call.before
                 \o convertToExcalidrawElements(
                      prefixIds(call.skeletons, call.counter + 1), call.generated)

(* C4 as stated: from the empty scene, after batches of add, replace and    *)
(* modify with pairwise-distinct ids each, all ids of the scene differ.    *)
C4_SceneIdsUnique == wellFormed => DistinctIds(scene)

----------------------------------------------------------------------------
(* Claims about the chat request *)

Failed(r) == r.pc = "done" /\ r.entry.role = "error"

Cancelled(r) == r.pc = "done" /\ r.entry = AssistantEntry("cancelled")

Succeeded(r) == r.pc = "done" /\ r.entry = AssistantEntry("generated")

(* C6: a request that is still running (tokens may have arrived), or that   *)
(* ended with an error entry or as cancelled, has made no updateScene call, *)
(* and the scene is the one the request started on (unless Clear emptied   *)
(* the canvas meanwhile).                                                  *)
C6_NoMutationBeforeSuccess ==
  \A i \in DOMAIN requests :
    LET r == requests[i]
    IN /\ r.pc # "done" => (~r.wrote /\ (~r.cleared => scene = r.sceneAtSend))
       /\ (Failed(r) \/ Cancelled(r)) => (~r.wrote /\ ~r.changed)

(* a second request fails on unparsable text after a first one drew *)
C6_Witness ==
  /\ Len(requests) = 2
  /\ Len(messages) = 4
  /\ messages[2] = AssistantEntry("generated")
  /\ Failed(requests[2])
  /\ requests[2].entry.kind = "missingelements"
  /\ scene # <<>>

(* C7: at most one request has been started and has not finished *)
C7_AtMostOneInFlight == Cardinality(InFlight) <= 1

(* a request runs after an earlier one was cancelled *)
C7_Witness ==
  /\ Len(requests) = 2
  /\ Len(messages) = 3
  /\ messages[2] = AssistantEntry("cancelled")
  /\ InFlight = {2}
  /\ requests[2].pc = "stream"

(* C8 as stated: after sendMessage(p) with a non-blank p during an active  *)
(* request, the old request is aborted and a request for p has been sent.  *)
C8_NewPromptCancelsOld ==
  lastSend.during # 0 =>
    /\ requests[lastSend.during].aborted
    /\ \E j \in DOMAIN requests :
         j > lastSend.during /\ requests[j].prompt = lastSend.prompt

(* C9: a request aborted by cancelRequest never calls onElementsGenerated,  *)
(* and the only entry it appends is "Request cancelled.".                   *)
C9_CancelledOnly ==
  \A i \in DOMAIN requests :
    LET r == requests[i]
    IN r.aborted =>
         /\ ~r.called
         /\ ~r.wrote
         /\ IF r.pc = "done" THEN r.entry = AssistantEntry("cancelled")
                             ELSE r.entry = NoEntry

(* cancelled after the whole of a valid response had been accumulated *)
C9_Witness ==
  \E i \in DOMAIN requests :
    /\ requests[i].aborted
    /\ requests[i].drawable
    /\ Cancelled(requests[i])
    /\ messages[Len(messages)] = AssistantEntry("cancelled")

----------------------------------------------------------------------------
(* Claims about the relay *)

(* C10 as stated: the whole request is bounded by the configured duration: *)
(* once more than that has elapsed the relay has finished, and if the       *)
(* upstream was cut off, with the timeout failure.                          *)
C10_WholeRequestBounded ==
  /\ elapsed > TimeoutTicks => relay.pc = "done"
  /\ (relay.pc = "done" /\ relay.aborted) =>
       relay.response = JsonResponse(504, "LLM request timed out")

----------------------------------------------------------------------------
(* Claims about the client's stream loop *)

(* C11 as stated: whatever the tokens and the chunks, once the stream of   *)
(* token events and [DONE] has ended the request is in the complete state: *)
(* the concatenation of the tokens has been handed to the response parser. *)
C11_StreamAccumulates ==
  stream.pc = "done" =>
    /\ stream.outcome = "parsed"
    /\ stream.handed = Concat(stream.tokens)

----------------------------------------------------------------------------
(* Claims about the response parser *)

(* the text is a JSON object with a non-empty elements array *)
ValidContent(content) == JSONParse(content).kind = "object"

(* C12: for a content that is a JSON object with a non-empty elements      *)
(* array, the parser hands over the same action and elements for           *)
(* "noise " + content + " noise" as for the content itself.                *)
C12_NoiseInvariant ==
  (parse.pc = "done" /\ ValidContent(parse.content)) =>
    /\ parse.plain = "generated"
    /\ parse.noisy = "generated"
    /\ parse.noisyAction = parse.action
    /\ parse.noisyElements = parse.elements

(* a content with an object nested after its elements *)
C12_Witness ==
  /\ parse.pc = "done"
  /\ parse.content = <<"{", "A", "{", "}", "}">>
  /\ parse.noisy = "generated"
  /\ parse.noisyElements # <<>>

(* the text, or its first-"{"-to-last-"}" substring, parses to an object    *)
(* whose elements field is a non-empty array                                *)
ParsesToElements(content) ==
  \/ JSONParse(content).kind = "object"
  \/ /\ ExtractJson(content) # <<>>
     /\ JSONParse(ExtractJson(content)).kind = "object"

(* C13 as stated: the parser hands elements over exactly for the texts that *)
(* parse (whole, or by their brace substring) to an object with a non-empty *)
(* elements array; every other text is reported as an invalid response      *)
(* (unparsable, or elements missing) and hands nothing over.                *)
C13_ValidatesShape ==
  parse.pc = "done" =>
    /\ parse.plain = "generated" <=> ParsesToElements(parse.content)
    /\ ~ParsesToElements(parse.content) =>
         /\ parse.plain \in {"invalidjson", "missingelements"}
         /\ parse.elements = <<>>

----------------------------------------------------------------------------
(* Claims about failures and retry *)

(* C14: a request that ends in a failure (relay error, server error,       *)
(* network error, stream error event, unparsable text, elements missing)   *)
(* appends, at that step, exactly one entry, of role error, retryable,     *)
(* with originalPrompt the prompt of that request.                         *)
C14_FailureIsRetryableEntry ==
  [][\A i \in DOMAIN requests :
       (/\ requests[i].pc # "done"
        /\ i \in DOMAIN requests'
        /\ requests'[i].pc = "done"
        /\ requests'[i].failure # "")
       => /\ messages' = Append(messages, requests'[i].entry)
          /\ requests'[i].entry.role = "error"
          /\ requests'[i].entry.retryable
          /\ requests'[i].entry.originalPrompt = requests[i].prompt]_vars

(* two requests with different prompts have failed in different ways *)
C14_Witness ==
  /\ Len(requests) = 2
  /\ requests[2].pc = "done" /\ requests[2].failure = "invalidjson"
  /\ requests[2].prompt = "q"
  /\ Len(messages) = 4
  /\ messages[2] = ErrorEntry("relay", "p")
  /\ messages[4] = ErrorEntry("invalidjson", "q")

(* C15 as stated: a request started by clicking Retry on the error entry a *)
(* request has just appended sends the messages list that request sent.    *)
C15_RetryResendsSameBody ==
  \A j \in DOMAIN requests :
    requests[j].retryOf # 0 =>
      requests[j].body = requests[requests[j].retryOf].body

----------------------------------------------------------------------------
(* Claims about normalizeLinearElements *)

FocusInRange(binding) ==
  binding.kind = "focus" => (-1 <= binding.focus /\ binding.focus <= 1)

(* C16 as stated: after normalizeLinearElements every arrow or line of the *)
(* batch, whatever its number of points, has each defined binding focus in *)
(* [-1, 1].                                                                *)
C16_FocusClamped ==
  linear.pc # "cloned" =>
    \A k \in DOMAIN linear.once :
      linear.once[k].type \in {"arrow", "line"} =>
        /\ FocusInRange(linear.once[k].startBinding)
        /\ FocusInRange(linear.once[k].endBinding)

(* C17: a second application of normalizeLinearElements changes nothing:   *)
(* position, points and binding focus of every element are those of the   *)
(* first application.                                                      *)
C17_Idempotent ==
  linear.pc = "twice" => linear.twice = linear.once

(* an arrow that the first application moved and clamped *)
C17_Witness ==
  /\ linear.pc = "twice"
  /\ Len(linear.input) = 1
  /\ linear.input[1].type = "arrow"
  /\ Len(linear.input[1].points) = MaxPoints
  /\ linear.input[1].points[1] # <<0, 0>>
  /\ linear.input[1].startBinding.focus = MaxFocus
  /\ linear.once[1].points[1] = <<0, 0>>
  /\ linear.once[1].pos # linear.input[1].pos
  /\ linear.once[1].startBinding.focus = 1

----------------------------------------------------------------------------
(* Claims about persistence *)

(* C18: after handleClearChat, and until the user submits a prompt or      *)
(* edits the canvas, the transcript and the scene are empty and neither    *)
(* stored item holds earlier content, also across a reload and also when a *)
(* request was in flight at the moment of Clear.                           *)
C18_ClearStaysClear ==
  hist.afterClear =>
    /\ messages = <<>>
    /\ scene = <<>>
    /\ ~storage.chat.present
    /\ RestoreCanvas(storage.canvas) = <<>>

(* C19 as stated: right after a reload has restored the page, the          *)
(* transcript is the last non-empty transcript and the scene is the        *)
(* elements of the last debounced save that fired.                         *)
C19_ReloadRoundTrip ==
  hist.phase = "restored" =>
    /\ messages = hist.lastTranscript
    /\ scene = hist.lastFired

(* C19 amended: right after a reload has restored the page, the transcript *)
(* is the last non-empty transcript, or empty when Clear removed it since, *)
(* and the scene is the elements of the last debounced save that fired, or *)
(* empty when handleClearCanvas removed the snapshot since.                *)
C19_ReloadRestoresStored ==
  hist.phase = "restored" =>
    /\ messages = IF hist.chatRemoved THEN <<>> ELSE hist.lastTranscript
    /\ scene = IF hist.canvasRemoved THEN <<>> ELSE hist.lastFired

(* a reload has brought back a transcript and a scene *)
C19_Witness ==
  /\ hist.phase = "restored"
  /\ ~hist.chatRemoved
  /\ ~hist.canvasRemoved
  /\ Len(messages) > 1
  /\ Len(scene) > 1

----------------------------------------------------------------------------
(* Claims about the validation of the relay *)

(* C20 as stated: a request whose body is not valid JSON, or whose         *)
(* messages field is not a non-empty array, is answered with status 400    *)
(* and a JSON error body, and no upstream request is issued for it.        *)
C20_BadBodyIs400 ==
  (relay.body # "" /\ relay.body # "valid") =>
    /\ relay.pc = "done"
    /\ relay.response.status = 400
    /\ relay.response.body = "json"
    /\ ~relay.fetched

----------------------------------------------------------------------------
(* Claims about the stream of the relay *)

(* C21 as stated: once the relay has read the [DONE] sentinel from the     *)
(* upstream, no token of a later line is forwarded: no token follows       *)
(* [DONE] on the response stream.                                          *)
C21_DoneEndsStream ==
  \A i, j \in DOMAIN relay.events :
    (i < j /\ relay.events[i] = "[DONE]") => relay.events[j] # "token"

(* C22 as stated: once the relay has read a payload with an error field    *)
(* the request has ended: the error is the last event on the response      *)
(* stream and that line is the last one read.                              *)
C22_ErrorEndsStream ==
  \A i \in DOMAIN relay.lines :
    relay.lines[i] = "error" =>
      /\ relay.pc = "done"
      /\ i = Len(relay.lines)
      /\ relay.events # <<>>
      /\ relay.events[Len(relay.events)] = "error"

(* C23 as stated: after the caller has aborted a streaming request the    *)
(* relay reads no further upstream event, and when its loop has ended it   *)
(* has released its upstream reader.                                       *)
C23_AbortStopsRelay ==
  relay.callerGone =>
    /\ relay.read = relay.readAtAbort
    /\ relay.pc = "done" => relay.released

----------------------------------------------------------------------------
(* Claims about prefixIds *)

(* C24: in the result of prefixIds distinct ids of the batch stay          *)
(* distinct; a start or end that names an id of the batch names the        *)
(* rewritten id of that skeleton; a start or end that names no id of the   *)
(* batch, and every other field, is as in the input.                       *)
C24_PrefixInjective ==
  prefixed.pc # "given" =>
    LET in == prefixed.input
        out == prefixed.output
    IN /\ DOMAIN out = DOMAIN in
       /\ \A i, j \in DOMAIN in :
            (in[i].hasId /\ in[j].hasId /\ in[i].id # in[j].id)
              => out[i].id # out[j].id
       /\ \A i, j \in DOMAIN in :
            /\ (in[j].hasId /\ in[i].start = Ref(in[j].id))
                 => out[i].start = Ref(out[j].id)
            /\ (in[j].hasId /\ in[i].end = Ref(in[j].id))
                 => out[i].end = Ref(out[j].id)
       /\ \A i \in DOMAIN in :
            /\ ~IdMapHas(in, in[i].start.id) => out[i].start = in[i].start
            /\ ~IdMapHas(in, in[i].end.id) => out[i].end = in[i].end
            /\ out[i].text = in[i].text
            /\ out[i].hasId = in[i].hasId
            /\ ~in[i].hasId => out[i].id = in[i].id

(* an arrow from another skeleton of the batch to an id outside it *)
C24_Witness ==
  /\ prefixed.pc = "done"
  /\ Len(prefixed.input) = 2
  /\ prefixed.input[1].hasId
  /\ prefixed.input[2].hasId
  /\ prefixed.input[1].id # prefixed.input[2].id
  /\ prefixed.input[2].start = Ref(prefixed.input[1].id)
  /\ prefixed.input[2].end = Ref("c")
  /\ prefixed.output[2].end = Ref("c")

(* the absolute position of point p of an element *)
Absolute(el, p) == <<el.pos[1] + el.points[p][1], el.pos[2] + el.points[p][2]>>

----------------------------------------------------------------------------
(* Claims about the debounced save *)

(* C26: every burst of changes is followed by one write: while a timeout   *)
(* is pending the last burst has not been written, and once none is        *)
(* pending there has been one write per burst and the storage holds the    *)
(* elements of the latest change; after the last change the storage holds  *)
(* the latest scene for good.                                              *)
C26_DebounceCoalesces ==
  /\ [](/\ debounce.timers # <<>> => debounce.writes + 1 = debounce.bursts
        /\ debounce.timers = <<>> =>
             /\ debounce.writes = debounce.bursts
             /\ debounce.stored = debounce.scene)
  /\ <>[](debounce.stored = debounce.scene)

(* two bursts, the second of several changes, have each been written once *)
C26_Witness ==
  /\ debounce.scene = MaxChanges
  /\ debounce.bursts = 2
  /\ debounce.writes = 2
  /\ debounce.stored = MaxChanges
  /\ debounce.timers = <<>>

----------------------------------------------------------------------------
(* Claims about the messages sent upstream *)

(* the places among the last RecentCount of messages whose entry is a user *)
(* or assistant message                                                    *)
RecentTurns(entries) ==
  {i \in DOMAIN entries :
     /\ i > Len(entries) - RecentCount
     /\ entries[i].role \in {"user", "assistant"}}

(* C27: the list sent upstream is one system message (with the canvas      *)
(* context when given) followed by the user and assistant messages among   *)
(* the last 10 entries of the request's messages, in their order: at most  *)
(* 10 of them and none of another role.                                    *)
C27_UpstreamMessages ==
  upstream.pc \in {"built", "sent"} =>
    LET sent == upstream.llmMessages
        turns == Tail(sent)
    IN /\ Len(sent) >= 1
       /\ sent[1] = SystemMessage(upstream.canvasContext)
       /\ Len(turns) <= RecentCount
       /\ \A k \in DOMAIN turns : turns[k].role \in {"user", "assistant"}
       /\ {turns[k].content : k \in DOMAIN turns}
            = RecentTurns(upstream.messages)
       /\ \A k \in DOMAIN turns :
            /\ turns[k] = upstream.messages[turns[k].content]
            /\ \A l \in DOMAIN turns :
                 k < l => turns[k].content < turns[l].content

(* more than ten entries, the oldest a user message that is left out and   *)
(* one of another role among the last ten                                  *)
C27_Witness ==
  /\ upstream.pc = "sent"
  /\ Len(upstream.messages) = MaxMessages
  /\ upstream.messages[1].role = "user"
  /\ \E i \in DOMAIN upstream.messages :
       i > 1 /\ upstream.messages[i].role = "system"
  /\ upstream.canvasContext
  /\ Len(upstream.llmMessages) = RecentCount

----------------------------------------------------------------------------
(* Claims about the non-streaming fallback *)

BothDone == fallback.pc = "done" /\ stream.pc = "done"

(* C28 as stated: for every model answer the relay returns a payload with  *)
(* the content, and the client ends as after a finished stream with the    *)
(* same text: the same outcome, the same text handed to the parser.        *)
C28_FallbackAsStated ==
  /\ fallback.pc \in {"relayed", "done"} =>
       /\ fallback.response = ContentResponse
       /\ fallback.payload = fallback.content
  /\ BothDone =>
       /\ fallback.outcome = stream.outcome
       /\ fallback.handed = stream.handed

----------------------------------------------------------------------------
(* Claims about identifier namespacing across reloads *)

(* the ids a batch with prefix number n can give to model-invented ids *)
PrefixedIds(n) == {BatchPrefix(n) \o id : id \in ModelIds}

(* C29: an add batch gets a prefix that no element of the scene carries,   *)
(* also when the scene was restored from storage after a reload: no id of  *)
(* the scene before the batch is an id the new prefix can produce.         *)
C29_PrefixFreshAfterReload ==
  [][batchCounter' = batchCounter + 1
       => Ids(scene) \cap PrefixedIds(batchCounter') = {}]_vars

----------------------------------------------------------------------------
(* Claims about the outcome entry of a request *)

(* C30: every request that has ended (its fetch settled or it was aborted, *)
(* loading set back to false by its finally block) has appended an outcome *)
(* entry to the transcript: a success, an error or "Request cancelled.".   *)
C30_OneOutcomeEntry ==
  \A i \in DOMAIN requests :
    (requests[i].pc = "done" /\ requests[i] # Retired)
      => requests[i].entry # NoEntry

====
